---- MODULE Spec2Model ----
(***************************************************************************)
(* Model of utils/file_utils.py: the tar extractor                         *)
(* (extract_validated_and_clips_from_tar), the directory helpers           *)
(* (ensure_directory_exists, delete_directory_if_exists) and the metadata  *)
(* loader (load_validated_data).                                           *)
(*                                                                         *)
(* Strings that the code inspects character by character (member names,    *)
(* target paths) are sequences of one-character strings, so that           *)
(* str.endswith, the `in` substring test, os.path.basename and             *)
(* os.path.join are computed the way Python computes them.                 *)
(***************************************************************************)
EXTENDS Integers, Sequences, FiniteSets, TLC

VARIABLES
    \* ---- extract_validated_and_clips_from_tar ----
    archive,          \* the container's member list as stored: <<[name, isfile]>>
    members,          \* TarInfo.name of each member (the code renames in place)
    clipsLink,        \* extract_path/clips pre-exists as a symlink to a directory outside
    containerExists,  \* os.path.exists(file_path)
    pc,               \* position of the call
    i,                \* 1-based index of the loop over tar.getmembers()
    files,            \* regular files reachable below extract_path: path -> data
    written,          \* log of the tar.extract calls that opened a target for writing
    failure,          \* which statement raised, "none" when nothing did
    \* ---- ensure_directory_exists / delete_directory_if_exists ----
    kind,             \* file system below a scratch root: path -> absent|dir|file
    last,             \* the latest helper call: operation, path, whether it raised
    \* ---- load_validated_data ----
    tsv,              \* the rows of the file: <<[path, gender]>>, gender as cell text
    df,               \* the DataFrame: <<[index, path, gender]>>
    lpc               \* position of the call

vars == <<archive, members, clipsLink, containerExists, pc, i, files, written,
          failure, kind, last, tsv, df, lpc>>

extractVars == <<archive, members, clipsLink, containerExists, pc, i, files,
                 written, failure>>
dirVars == <<kind, last>>
loadVars == <<tsv, df, lpc>>

\* ------------------------------------------------------------------------
\* Bounds
\* ------------------------------------------------------------------------
MaxMembers == 3
MaxRows == 3

\* ------------------------------------------------------------------------
\* Python string and path functions on character sequences
\* ------------------------------------------------------------------------
SL == <<"/">>
VALIDATED_TSV == <<"v","a","l","i","d","a","t","e","d",".","t","s","v">>
CLIPS == <<"c","l","i","p","s">>
CLIPS_SLASH == CLIPS \o SL
DOTDOT == <<".",".">>

SetMax(S) == CHOOSE m \in S : \A x \in S : x <= m

\* str.endswith
EndsWith(s, suf) ==
    /\ Len(s) >= Len(suf)
    /\ SubSeq(s, Len(s) - Len(suf) + 1, Len(s)) = suf

\* str.startswith
StartsWith(s, pre) ==
    /\ Len(s) >= Len(pre)
    /\ SubSeq(s, 1, Len(pre)) = pre

\* the substring test `sub in s`
Contains(s, sub) ==
    \E k \in 1..(Len(s) - Len(sub) + 1) : SubSeq(s, k, k + Len(sub) - 1) = sub

\* os.path.basename: everything after the last slash
Basename(s) ==
    LET slashes == {k \in 1..Len(s) : s[k] = "/"}
    IN  IF slashes = {} THEN s ELSE SubSeq(s, SetMax(slashes) + 1, Len(s))

\* os.path.join(a, b)
PathJoin(a, b) ==
    IF b # <<>> /\ b[1] = "/" THEN b
    ELSE IF a = <<>> \/ a[Len(a)] = "/" THEN a \o b
    ELSE a \o SL \o b

\* ------------------------------------------------------------------------
\* The archives the extractor is run on
\* ------------------------------------------------------------------------
NameValidated == <<"e","/">> \o VALIDATED_TSV                            \* e/validated.tsv
NameInvalidated == <<"e","/","i","n">> \o VALIDATED_TSV                  \* e/invalidated.tsv
NameClipsValidated == <<"e","/">> \o CLIPS_SLASH \o VALIDATED_TSV        \* e/clips/validated.tsv
NameClipXA == <<"e","/">> \o CLIPS_SLASH \o <<"x","/","a">>              \* e/clips/x/a
NameClipYA == <<"e","/">> \o CLIPS_SLASH \o <<"y","/","a">>              \* e/clips/y/a
NameMyClipsB == <<"e","/","m","y">> \o CLIPS_SLASH \o <<"b">>            \* e/myclips/b
NameEvil == <<"/",".",".","/">> \o CLIPS_SLASH \o <<".",".","/","z">>    \* /../clips/../z
NameClipsDotDot == <<"e","/">> \o CLIPS_SLASH \o DOTDOT                  \* e/clips/..
NameReadme == <<"e","/","r">>                                            \* e/r
NameClipsDir == <<"e","/">> \o CLIPS                                     \* e/clips

MemberPool ==
    {[name |-> n, isfile |-> TRUE] :
        n \in {NameValidated, NameInvalidated, NameClipsValidated, NameClipXA,
               NameClipYA, NameMyClipsB, NameEvil, NameClipsDotDot, NameReadme}}
    \cup {[name |-> NameClipsDir, isfile |-> FALSE],
          [name |-> NameClipXA, isfile |-> FALSE]}

Archives == UNION {[1..n -> MemberPool] : n \in 0..MaxMembers}

\* The payload of member k is identified by its position k; a file that was
\* opened for writing and not completed holds PARTIAL.
PARTIAL == 0

\* ------------------------------------------------------------------------
\* extract_validated_and_clips_from_tar
\* ------------------------------------------------------------------------
\* filter= argument of tar.extract
ExtractFilter == "fully_trusted"

\* tarfile's filters ordered by what they refuse; "data" refuses most
MostRestrictiveFilter == "data"

\* line 47
IsValidated(name) == EndsWith(name, VALIDATED_TSV)

\* line 50
IsClip(name) == Contains(name, CLIPS_SLASH)

\* line 51 without os.path.basename: the sub-directories below the first
\* clips/ are kept
ClipNameKeepSubdirs(name) ==
    LET at == {k \in 1..(Len(name) - Len(CLIPS_SLASH) + 1) :
                    SubSeq(name, k, k + Len(CLIPS_SLASH) - 1) = CLIPS_SLASH}
        first == CHOOSE k \in at : \A j \in at : k <= j
    IN  PathJoin(CLIPS, SubSeq(name, first + Len(CLIPS_SLASH), Len(name)))
\* line 51
ClipName(name) == PathJoin(CLIPS, Basename(name))

\* the new member.name of a member the loop extracts (lines 47-52)
NewName(name) == IF IsValidated(name) THEN VALIDATED_TSV ELSE ClipName(name)

\* lines 45, 47, 50: does the loop body extract member m
Selected(m) == m.isfile /\ (IsValidated(m.name) \/ IsClip(m.name))

\* Is the target physically inside extract_path? Only a pre-existing symlink
\* at extract_path/clips leads outside.
Inside(path) == ~(clipsLink /\ StartsWith(path, CLIPS_SLASH))

\* the "tar" and "data" filters refuse a target that resolves outside the
\* destination; "fully_trusted" refuses nothing
FilterRefuses(filter, path) == filter \in {"tar", "data"} /\ ~Inside(path)

\* the target names an existing directory (extract_path/clips/.. is
\* extract_path itself): open(target, "wb") raises IsADirectoryError
IsDirTarget(path) == Basename(path) \in {<<>>, <<".">>, DOTDOT}

WriteFile(f, path, data) ==
    [p \in (DOMAIN f) \cup {path} |-> IF p = path THEN data ELSE f[p]]

LogEntry(k, path, complete) ==
    [member |-> k, path |-> path, inside |-> Inside(path),
     filter |-> ExtractFilter, complete |-> complete]

\* os.remove indented into the loop: reached while a member is still to come
AfterLoopEarly(idx, n) == idx >= n
\* line 55 follows the loop: every member has been visited
AfterLoop(idx, n) == idx > n

ExtractInit ==
    /\ archive \in Archives
    /\ members = <<>>
    /\ clipsLink \in BOOLEAN
    /\ containerExists = TRUE
    /\ pc = "start"
    /\ i = 0
    /\ files = <<>>
    /\ written = {}
    /\ failure = "none"

\* lines 43-44: tarfile.open and tar.getmembers succeed
Open ==
    /\ pc = "start"
    /\ members' = [k \in 1..Len(archive) |-> archive[k].name]
    /\ pc' = "loop"
    /\ i' = 1
    /\ UNCHANGED <<archive, clipsLink, containerExists, files, written, failure>>
    /\ UNCHANGED <<dirVars, loadVars>>

\* line 43: the container cannot be opened or parsed
OpenFail ==
    /\ pc = "start"
    /\ pc' = "failed"
    /\ failure' = "open"
    /\ UNCHANGED <<archive, members, clipsLink, containerExists, i, files, written>>
    /\ UNCHANGED <<dirVars, loadVars>>

\* lines 45-52: a member no branch extracts
SkipMember ==
    /\ pc = "loop"
    /\ i <= Len(members)
    /\ ~Selected(archive[i])
    /\ i' = i + 1
    /\ UNCHANGED <<archive, members, clipsLink, containerExists, pc, files, written,
                   failure>>
    /\ UNCHANGED <<dirVars, loadVars>>

\* lines 47-49: rename to validated.tsv and extract
ExtractValidated ==
    /\ pc = "loop"
    /\ i <= Len(members)
    /\ archive[i].isfile
    /\ IsValidated(members[i])
    /\ LET target == VALIDATED_TSV
       IN  /\ ~FilterRefuses(ExtractFilter, target)
           /\ members' = [members EXCEPT ![i] = target]
           /\ files' = WriteFile(files, target, i)
           /\ written' = written \cup {LogEntry(i, target, TRUE)}
    /\ i' = i + 1
    /\ UNCHANGED <<archive, clipsLink, containerExists, pc, failure>>
    /\ UNCHANGED <<dirVars, loadVars>>

\* lines 50-52: rename to clips/<basename> and extract
ExtractClip ==
    /\ pc = "loop"
    /\ i <= Len(members)
    /\ archive[i].isfile
    /\ ~IsValidated(members[i])
    /\ IsClip(members[i])
    /\ LET target == ClipName(members[i])
       IN  /\ ~FilterRefuses(ExtractFilter, target)
           /\ ~IsDirTarget(target)
           /\ members' = [members EXCEPT ![i] = target]
           /\ files' = WriteFile(files, target, i)
           /\ written' = written \cup {LogEntry(i, target, TRUE)}
    /\ i' = i + 1
    /\ UNCHANGED <<archive, clipsLink, containerExists, pc, failure>>
    /\ UNCHANGED <<dirVars, loadVars>>

\* tar.extract raising inside try/finally: os.remove(file_path) still runs
ExtractFailThenRemove ==
    /\ pc = "loop"
    /\ i <= Len(members)
    /\ Selected([name |-> members[i], isfile |-> archive[i].isfile])
    /\ members' = [members EXCEPT ![i] = NewName(members[i])]
    /\ containerExists' = FALSE
    /\ pc' = "failed"
    /\ failure' = "extract"
    /\ UNCHANGED <<archive, clipsLink, i, files, written>>
    /\ UNCHANGED <<dirVars, loadVars>>

\* tar.extract raising with a rollback: what was extracted is removed again
ExtractFailRollback ==
    /\ pc = "loop"
    /\ i <= Len(members)
    /\ Selected([name |-> members[i], isfile |-> archive[i].isfile])
    /\ members' = [members EXCEPT ![i] = NewName(members[i])]
    /\ files' = <<>>
    /\ pc' = "failed"
    /\ failure' = "extract"
    /\ UNCHANGED <<archive, clipsLink, containerExists, i, written>>
    /\ UNCHANGED <<dirVars, loadVars>>

\* lines 49, 52: tar.extract raises. Either the target was never opened (the
\* filter refused it, it is a directory, open failed) and is untouched, or the
\* copy broke off and the target is left partially written. The exception
\* leaves the with block and the function: line 55 is not reached.
ExtractFail ==
    /\ pc = "loop"
    /\ i <= Len(members)
    /\ Selected([name |-> members[i], isfile |-> archive[i].isfile])
    /\ LET target == NewName(members[i])
       IN  /\ members' = [members EXCEPT ![i] = target]
           /\ \/ /\ UNCHANGED <<files, written>>
              \/ /\ ~FilterRefuses(ExtractFilter, target)
                 /\ ~IsDirTarget(target)
                 /\ files' = WriteFile(files, target, PARTIAL)
                 /\ written' = written \cup {LogEntry(i, target, FALSE)}
    /\ pc' = "failed"
    /\ failure' = "extract"
    /\ UNCHANGED <<archive, clipsLink, containerExists, i>>
    /\ UNCHANGED <<dirVars, loadVars>>

\* lines 54-55: the loop is over, the with block closes, os.remove(file_path)
Remove ==
    /\ pc = "loop"
    /\ AfterLoop(i, Len(members))
    /\ containerExists' = FALSE
    /\ pc' = "done"
    /\ UNCHANGED <<archive, members, clipsLink, i, files, written, failure>>
    /\ UNCHANGED <<dirVars, loadVars>>

\* ------------------------------------------------------------------------
\* ensure_directory_exists / delete_directory_if_exists
\* ------------------------------------------------------------------------
DirPaths == {"a", "a/b", "a/b/c", "d"}

\* the proper ancestors of a path below the scratch root
Ancestors(p) ==
    CASE p = "a/b/c" -> {"a", "a/b"}
      [] p = "a/b" -> {"a"}
      [] OTHER -> {}

Descendants(p) == {q \in DirPaths : p \in Ancestors(q)}

\* a file system: whatever exists has directories for ancestors
Consistent(k) ==
    \A p \in DirPaths : k[p] # "absent" => \A q \in Ancestors(p) : k[q] = "dir"

FileSystems == {k \in [DirPaths -> {"absent", "dir", "file"}] : Consistent(k)}

\* os.path.exists
PathExists(k, p) == k[p] # "absent"

\* os.makedirs: creates the missing ancestors and the leaf; raises
\* NotADirectoryError, creating nothing, when an ancestor is a regular file
MakeDirs(k, p) ==
    IF \E q \in Ancestors(p) : k[q] = "file"
    THEN [kind |-> k, raised |-> TRUE]
    ELSE [kind |-> [q \in DirPaths |-> IF q = p \/ q \in Ancestors(p) THEN "dir" ELSE k[q]],
          raised |-> FALSE]

\* shutil.rmtree: removes the tree; raises NotADirectoryError on a regular file
RmTree(k, p) ==
    IF k[p] = "file"
    THEN [kind |-> k, raised |-> TRUE]
    ELSE [kind |-> [q \in DirPaths |-> IF q = p \/ q \in Descendants(p) THEN "absent" ELSE k[q]],
          raised |-> FALSE]

\* lines 63-67
EnsureResult(k, p) ==
    IF ~PathExists(k, p) THEN MakeDirs(k, p) ELSE [kind |-> k, raised |-> FALSE]

\* lines 75-79
DeleteResult(k, p) ==
    IF PathExists(k, p) THEN RmTree(k, p) ELSE [kind |-> k, raised |-> FALSE]

DirInit ==
    /\ kind \in FileSystems
    /\ last = [op |-> "none", path |-> "a", raised |-> FALSE]

ensure_directory_exists ==
    /\ \E p \in DirPaths :
        LET r == EnsureResult(kind, p)
        IN  /\ kind' = r.kind
            /\ last' = [op |-> "ensure", path |-> p, raised |-> r.raised]
    /\ UNCHANGED <<extractVars, loadVars>>

delete_directory_if_exists ==
    /\ \E p \in DirPaths :
        LET r == DeleteResult(kind, p)
        IN  /\ kind' = r.kind
            /\ last' = [op |-> "delete", path |-> p, raised |-> r.raised]
    /\ UNCHANGED <<extractVars, loadVars>>

\* ------------------------------------------------------------------------
\* load_validated_data
\* ------------------------------------------------------------------------
NAN == "<NaN>"
NONE == "<None>"

\* cell texts pandas.read_csv reads as missing by default (those used here)
NaValues == {"", "NA"}

GenderCells == {"male", "male_masculine", "female", "female_feminine",
                "other", "nonbinary", "Male", "", "NA"}

\* the path column of row k is identified by k
Tables == UNION {[1..n -> GenderCells] : n \in 0..MaxRows}

\* line 89: the value read_csv gives a gender cell
ParseCell(text) == IF text \in NaValues THEN NAN ELSE text

\* line 92: Series.notna
NotNa(v) == v # NAN

\* line 95 with the category label tested as a substring
SimplifyGenderSubstring(x) ==
    IF x \in {"male_masculine", "male", "female_feminine", "female"} THEN "male"
    ELSE NONE
\* line 95: the lambda
SimplifyGender(x) ==
    IF x \in {"male_masculine", "male"} THEN "male"
    ELSE IF x \in {"female_feminine", "female"} THEN "female"
    ELSE NONE

\* line 92 done after line 95: rows without a category go as well
KeepRowCategorised(r) == NotNa(r.gender) /\ SimplifyGender(r.gender) # NONE
\* line 92: the row mask
KeepRow(r) == NotNa(r.gender)

LoadInit ==
    /\ \E t \in Tables : tsv = [k \in DOMAIN t |-> [path |-> k, gender |-> t[k]]]
    /\ df = <<>>
    /\ lpc = "read"

\* line 89: pd.read_csv(..., usecols=['path', 'gender']), RangeIndex from 0
ReadCsv ==
    /\ lpc = "read"
    /\ df' = [k \in DOMAIN tsv |->
                [index |-> k - 1, path |-> tsv[k].path, gender |-> ParseCell(tsv[k].gender)]]
    /\ lpc' = "dropna"
    /\ UNCHANGED <<tsv, extractVars, dirVars>>

\* line 92: df = df[df['gender'].notna()]
DropNa ==
    /\ lpc = "dropna"
    /\ df' = SelectSeq(df, KeepRow)
    /\ lpc' = "apply"
    /\ UNCHANGED <<tsv, extractVars, dirVars>>

\* lines 95-97: apply the lambda to the gender column and return df
ApplyGender ==
    /\ lpc = "apply"
    /\ df' = [k \in DOMAIN df |-> [df[k] EXCEPT !.gender = SimplifyGender(@)]]
    /\ lpc' = "returned"
    /\ UNCHANGED <<tsv, extractVars, dirVars>>

\* ------------------------------------------------------------------------
\* Specifications: one per function family, the others idle
\* ------------------------------------------------------------------------
ExtractIdle ==
    /\ archive = <<>>
    /\ members = <<>>
    /\ clipsLink = FALSE
    /\ containerExists = TRUE
    /\ pc = "idle"
    /\ i = 0
    /\ files = <<>>
    /\ written = {}
    /\ failure = "none"

DirIdle ==
    /\ kind = [p \in DirPaths |-> "absent"]
    /\ last = [op |-> "none", path |-> "a", raised |-> FALSE]

LoadIdle ==
    /\ tsv = <<>>
    /\ df = <<>>
    /\ lpc = "idle"

Init == ExtractInit /\ DirIdle /\ LoadIdle

Next ==
    \/ Open
    \/ OpenFail
    \/ SkipMember
    \/ ExtractValidated
    \/ ExtractClip
    \/ ExtractFail
    \/ Remove

Spec == Init /\ [][Next]_vars

InitDir == ExtractIdle /\ DirInit /\ LoadIdle

NextDir ==
    \/ ensure_directory_exists
    \/ delete_directory_if_exists

SpecDir == InitDir /\ [][NextDir]_vars

InitLoad == ExtractIdle /\ DirIdle /\ LoadInit

NextLoad ==
    \/ ReadCsv
    \/ DropNa
    \/ ApplyGender

SpecLoad == InitLoad /\ [][NextLoad]_vars

\* ========================================================================
\* Properties of extract_validated_and_clips_from_tar (Spec)
\* ========================================================================
\* the member is named <prefix>/validated.tsv with a non-empty prefix
IsPrefixedValidated(name) ==
    EndsWith(name, SL \o VALIDATED_TSV) /\ Len(name) > Len(VALIDATED_TSV) + 1

\* the name has a path segment clips followed by a slash
HasClipsSegment(name) ==
    StartsWith(name, CLIPS_SLASH) \/ Contains(name, SL \o CLIPS_SLASH)

Returned == pc = "done"
ExtractFailed == pc = "failed" /\ failure = "extract"

\* C1: when the archive holds a regular file named <prefix>/validated.tsv
\* (and no second one of that description), a successful extraction leaves
\* extract_path/validated.tsv holding that member's content, whatever other
\* members there are, those whose names end with validated.tsv included.
C1_Original ==
    Returned =>
        \A k \in 1..Len(archive) :
            ( /\ archive[k].isfile
              /\ IsPrefixedValidated(archive[k].name)
              /\ \A j \in 1..Len(archive) :
                    (archive[j].isfile /\ IsPrefixedValidated(archive[j].name)) => j = k )
            => /\ VALIDATED_TSV \in DOMAIN files
               /\ files[VALIDATED_TSV] = k

\* the regular-file members whose name includes clips/
ClipMembers == {k \in 1..Len(archive) : archive[k].isfile /\ Contains(archive[k].name, CLIPS_SLASH)}

\* the files below extract_path/clips/
ClipFiles == {p \in DOMAIN files : StartsWith(p, CLIPS_SLASH)}

\* C2: after a successful extraction of an archive with N regular-file members
\* whose name includes clips/, there are at most N files below clips/, each
\* directly below clips/ and named by the basename of such a member, and each
\* holds the content of the last such member with that basename.
C2_ClipsFlattenedLastWins ==
    Returned =>
        /\ Cardinality(ClipFiles) <= Cardinality(ClipMembers)
        /\ \A p \in ClipFiles :
            LET base == SubSeq(p, Len(CLIPS_SLASH) + 1, Len(p))
                same == {k \in ClipMembers : Basename(archive[k].name) = base}
            IN  /\ ~Contains(base, SL)
                /\ same # {}
                /\ files[p] = SetMax(same)

\* C2 witness: two clips of one basename were extracted and the later one is
\* what clips/<basename> holds.
C2_Witness ==
    /\ Returned
    /\ \E j, k \in ClipMembers :
        /\ j < k
        /\ Basename(archive[j].name) = Basename(archive[k].name)
        /\ PathJoin(CLIPS, Basename(archive[k].name)) \in ClipFiles
        /\ files[PathJoin(CLIPS, Basename(archive[k].name))] = k

\* C3: every write below the destination is of a regular-file member whose
\* name ends with validated.tsv or has a clips/ path segment, and goes to
\* validated.tsv or clips/<basename>; directories and files matching neither
\* rule are never written.
C3_Original ==
    \A w \in written :
        LET m == archive[w.member]
        IN  /\ m.isfile
            /\ EndsWith(m.name, VALIDATED_TSV) \/ HasClipsSegment(m.name)
            /\ \/ w.path = VALIDATED_TSV
               \/ w.path = CLIPS_SLASH \o Basename(m.name)

\* C4: a call that returns has removed the container, and the container is
\* gone only once every member has been visited and every member the loop
\* extracts has been extracted.
C4_RemovedAfterAllMembers ==
    /\ Returned => ~containerExists
    /\ ~containerExists =>
        /\ Returned
        /\ i = Len(archive) + 1
        /\ \A k \in 1..Len(archive) :
            Selected(archive[k]) => \E w \in written : w.member = k /\ w.complete

\* C4 witness: a call over several members, some of them extracted, returned.
C4_Witness ==
    /\ Returned
    /\ ~containerExists
    /\ Len(archive) >= 2
    /\ \E w \in written : w.member = Len(archive)

\* C5: every write lands inside the destination directory and is made under
\* the most restrictive extraction filter.
C5_Original ==
    \A w \in written : w.inside /\ w.filter = MostRestrictiveFilter

\* C9 as stated: once the archive was opened the container is removed by the
\* end of the call, also when extracting a member failed.
C9_Original ==
    (Returned \/ ExtractFailed) => ~containerExists

\* C9 amended: the container is removed when the loop ran to its end; when
\* extracting a member raised, line 55 is not reached and the container is
\* still there at the end of the call.
C9_RemovedOnlyWithoutFailure ==
    /\ Returned => ~containerExists
    /\ ExtractFailed => containerExists

\* C9 witness: a member failed after another had been extracted.
C9_Witness ==
    /\ ExtractFailed
    /\ containerExists
    /\ \E w \in written : w.complete /\ w.member < i

\* C10 as stated: after a failed write no later member is extracted and every
\* member extracted before is still on disk with its content.
C10_Original ==
    ExtractFailed =>
        \A w \in written :
            /\ w.member <= i
            /\ w.complete => (w.path \in DOMAIN files /\ files[w.path] = w.member)

\* C10 amended: after a failed write no later member is extracted and nothing
\* is rolled back: every path written so far still exists and holds the
\* content of the last member extracted to it, the target of the failing
\* member possibly being left partially written.
C10_NoRollbackLastWriterStays ==
    ExtractFailed =>
        /\ \A w \in written :
            /\ w.member <= i
            /\ w.complete => w.member < i
            /\ w.path \in DOMAIN files
        /\ \A p \in DOMAIN files :
            LET writers == {w \in written : w.path = p}
                lastw == CHOOSE w \in writers : \A v \in writers : v.member <= w.member
            IN  /\ writers # {}
                /\ files[p] = IF lastw.complete THEN lastw.member ELSE PARTIAL

\* C10 witness: a member failed and a member extracted before it is on disk.
C10_Witness ==
    /\ ExtractFailed
    /\ \E w \in written :
        /\ w.complete
        /\ w.member < i
        /\ w.path \in DOMAIN files
        /\ files[w.path] = w.member

\* ========================================================================
\* Properties of the directory helpers (SpecDir)
\* ========================================================================
\* C8: whatever was at path, after ensure_directory_exists(path) a directory
\* is there, after delete_directory_if_exists(path) nothing is there, neither
\* call raises, and calling again changes nothing and raises nothing.
C8_Original ==
    /\ last.op = "ensure" =>
        /\ ~last.raised
        /\ kind[last.path] = "dir"
        /\ EnsureResult(kind, last.path) = [kind |-> kind, raised |-> FALSE]
    /\ last.op = "delete" =>
        /\ ~last.raised
        /\ kind[last.path] = "absent"
        /\ DeleteResult(kind, last.path) = [kind |-> kind, raised |-> FALSE]

\* ========================================================================
\* Properties of load_validated_data (SpecLoad)
\* ========================================================================
LoadReturned == lpc = "returned"

\* the gender cell of the file row that DataFrame row r came from
RawGender(r) == tsv[r.index + 1].gender

\* C6: in the returned rows the category is male for raw male and
\* male_masculine, female for raw female and female_feminine, and None for
\* every other raw value.
C6_CategoryMapping ==
    LoadReturned =>
        \A k \in 1..Len(df) :
            LET raw == RawGender(df[k])
            IN  /\ raw \in {"male", "male_masculine"} => df[k].gender = "male"
                /\ raw \in {"female", "female_feminine"} => df[k].gender = "female"
                /\ raw \notin {"male", "male_masculine", "female", "female_feminine"}
                    => df[k].gender = NONE

\* C6 witness: a returned table with a male_masculine, a female_feminine and
\* an unrecognised row.
C6_Witness ==
    /\ LoadReturned
    /\ \E a, b, c \in 1..Len(df) :
        /\ RawGender(df[a]) = "male_masculine" /\ df[a].gender = "male"
        /\ RawGender(df[b]) = "female_feminine" /\ df[b].gender = "female"
        /\ RawGender(df[c]) = "other" /\ df[c].gender = NONE

\* the file rows whose gender cell is not missing
PresentRows == {k \in 1..Len(tsv) : tsv[k].gender \notin NaValues}

\* C7: the returned rows are exactly the file rows whose gender is not
\* missing, in file order; rows whose category is None are among them.
C7_ExactlyPresentRowsInOrder ==
    LoadReturned =>
        /\ Len(df) = Cardinality(PresentRows)
        /\ \A k \in 1..Len(df) :
            /\ df[k].index + 1 \in PresentRows
            /\ df[k].path = tsv[df[k].index + 1].path
        /\ \A j, k \in 1..Len(df) : j < k => df[j].index < df[k].index

\* C7 witness: a row with a missing gender was dropped, a row without a
\* category was kept.
C7_Witness ==
    /\ LoadReturned
    /\ \E k \in 1..Len(tsv) : tsv[k].gender \in NaValues
    /\ \E k \in 1..Len(df) : df[k].gender = NONE
    /\ \E k \in 1..Len(df) : df[k].gender # NONE

====
